---- MODULE Spec2Model ----
(***************************************************************************)
(* Rolling revenue forecast: a model of the three computations of the      *)
(* repository.                                                             *)
(*   - calculate_daily_revenue_stream (src/data/data.py)                   *)
(*   - run_evaluation                 (src/model/model.py)                 *)
(*   - main, the forecast command     (src/cli/forecast.py)                *)
(* Each has its own specification (SpecRevenue, SpecEval, SpecForecast);   *)
(* the variables of the other two stay at Idle.                            *)
(***************************************************************************)
EXTENDS Integers, Sequences, FiniteSets, TLC

VARIABLES
    \* calculate_daily_revenue_stream
    n_days,          \* argument n_days
    start_date,      \* argument start_date, a day ordinal
    rows_done,       \* rows of data.iterrows() consumed so far; len(data) at the end
    row,             \* the row the loop body ran on last
    before,          \* revenue_stream as it was when that row was taken
    revenue_stream,  \* the local array
    rpc,             \* "loop", "done" (returned) or "raised" (IndexError)
    \* run_evaluation
    train,           \* argument train: its series_column, oldest period first
    valid,           \* argument valid: its series_column
    n_tests,         \* argument n_tests
    n_lag,           \* argument n_lag
    n_steps,         \* argument n_steps
    test_df,         \* the local frame: its series_column
    i,               \* the loop variable
    aes,             \* the list of error arrays; the flat series once returned
    predictions,     \* the list of forecasts
    calls,           \* what the model has seen and answered, call by call
    epc,             \* "start", "loop", "done", "ModelError" or "ValueError"
    \* main of the forecast command
    month,           \* option --month
    year,            \* option --year
    revenue,         \* option --revenue: two amounts, in thousandths
    hotel,           \* option --hotel
    params,          \* the loaded params.yaml: a function on the keys it holds
    model,           \* the forecaster: the file it was loaded from, or None
    transformer,     \* the spline transformer: its file, or None
    last_window,     \* the frame of actuals: rows of period and amount
    forecast_index,  \* the periods of the forecast
    forecast,        \* what model.predict returned
    transform_calls, \* calls of transformer.transform
    predict_calls,   \* calls of model.predict
    log,             \* the lines logged, in order
    cpc              \* where main is; "returned" and "raised" end it

rvars == <<n_days, start_date, rows_done, row, before, revenue_stream, rpc>>

evars == <<train, valid, n_tests, n_lag, n_steps, test_df, i, aes, predictions, calls, epc>>

cvars == <<month, year, revenue, hotel, params, model, transformer, last_window,
           forecast_index, forecast, transform_calls, predict_calls, log, cpc>>

vars == <<rvars, evars, cvars>>

Idle == "idle"

----------------------------------------------------------------------------
(* Bounds *)

MaxDays == 2
MaxRows == 2
MaxRate == 2

\* a stay may be longer than the whole analysed period
MaxNights == MaxDays + 1

MaxTrain == 2
MaxValid == 3
MaxTests == 2
MaxLag == 2
MaxSteps == 2
MaxConfigLags == 3

----------------------------------------------------------------------------
(* calculate_daily_revenue_stream *)

\* day 0 of the period sits in the middle of the calendar of the model
StartDay == MaxDays + 1

\* day ordinals: from before start_date - n_days to after start_date + n_days
Dates == 0 .. (2 * MaxDays + 1)

NonRefund == "Non Refund"

DepositTypes == {"No Deposit", NonRefund}

\* The rows of the booking table. A cancelled booking carries the day of the
\* cancellation (before the arrival) as reservation_status_date, a stay the
\* day of the check-out.
Bookings ==
    { [is_canceled |-> 1, deposit_type |-> dt,
       arrival_date |-> d + 1, reservation_status_date |-> d,
       adr |-> a, total_nights |-> l] :
          dt \in DepositTypes, d \in Dates, a \in 1 .. MaxRate, l \in 0 .. MaxNights }
    \cup
    { [is_canceled |-> 0, deposit_type |-> dt,
       arrival_date |-> d, reservation_status_date |-> d + l,
       adr |-> a, total_nights |-> l] :
          dt \in DepositTypes, d \in Dates, a \in 1 .. MaxRate, l \in 0 .. MaxNights }

\* (a - b).days of two midnight timestamps
DaysBetween(a, b) == a - b

\* np.zeros(n)
Zeros(n) == [d \in 0 .. (n - 1) |-> 0]

\* the position a numpy index k names in an array of length n: a negative
\* index counts from the end; -1 stands for IndexError
NpPosition(k, n) ==
    IF 0 <= k /\ k < n THEN k
    ELSE IF -n <= k /\ k < 0 THEN k + n
    ELSE -1

\* a slip in the range test: the upper bound taken inclusive
StatusDateInRangeInclusive(idx, n) == 0 <= idx /\ idx <= n

\* if 0 <= idx < n_days
StatusDateInRange(idx, n) == 0 <= idx /\ idx < n

\* revenue = row.adr * row.total_nights
CancelledRevenue(r) == r.adr * r.total_nights

\* a slip in the break test: the stay cut one night early
StayLeavesPeriodEarly(idx, step, n) == idx + step >= n - 1

\* a slip in the break test: the stay cut one night late
StayLeavesPeriodLate(idx, step, n) == idx + step > n

\* if idx + step > n_days - 1: break
StayLeavesPeriod(idx, step, n) == idx + step > n - 1

\* for step in range(row.total_nights): ... revenue_stream[idx + step] += row.adr
RECURSIVE SpreadOverStay(_, _, _, _, _)
SpreadOverStay(rs, r, idx, step, n) ==
    IF step >= r.total_nights THEN [ok |-> TRUE, rs |-> rs]
    ELSE IF StayLeavesPeriod(idx, step, n) THEN [ok |-> TRUE, rs |-> rs]
    ELSE LET pos == NpPosition(idx + step, n)
         IN  IF pos = -1 THEN [ok |-> FALSE, rs |-> rs]
             ELSE SpreadOverStay([rs EXCEPT ![pos] = @ + r.adr], r, idx, step + 1, n)

\* the body of the loop over data.iterrows()
RowBody(rs, r, n, start) ==
    IF r.is_canceled = 1 /\ r.deposit_type = NonRefund
    THEN LET idx == DaysBetween(r.reservation_status_date, start)
             pos == NpPosition(idx, n)
         IN  IF StatusDateInRange(idx, n)
             THEN IF pos = -1 THEN [ok |-> FALSE, rs |-> rs]
                  ELSE [ok |-> TRUE, rs |-> [rs EXCEPT ![pos] = @ + CancelledRevenue(r)]]
             ELSE [ok |-> TRUE, rs |-> rs]
    ELSE IF r.is_canceled = 0
    THEN SpreadOverStay(rs, r, DaysBetween(r.arrival_date, start), 0, n)
    ELSE [ok |-> TRUE, rs |-> rs]

RevenueIdle ==
    /\ n_days = Idle /\ start_date = Idle /\ rows_done = Idle /\ row = Idle
    /\ before = Idle /\ revenue_stream = Idle /\ rpc = Idle

EvalIdle ==
    /\ train = Idle /\ valid = Idle /\ n_tests = Idle /\ n_lag = Idle
    /\ n_steps = Idle /\ test_df = Idle /\ i = Idle /\ aes = Idle
    /\ predictions = Idle /\ calls = Idle /\ epc = Idle

ForecastIdle ==
    /\ month = Idle /\ year = Idle /\ revenue = Idle /\ hotel = Idle
    /\ params = Idle /\ model = Idle /\ transformer = Idle
    /\ last_window = Idle /\ forecast_index = Idle /\ forecast = Idle
    /\ transform_calls = Idle /\ predict_calls = Idle /\ log = Idle /\ cpc = Idle

InitRevenue ==
    /\ EvalIdle
    /\ ForecastIdle
    /\ n_days \in 1 .. MaxDays
    /\ start_date = StartDay
    /\ rows_done = 0
    /\ row = Idle
    /\ before = Zeros(n_days)
    /\ revenue_stream = Zeros(n_days)
    /\ rpc = "loop"

\* one turn of "for i, row in data.iterrows()": data holds another row
IterRow ==
    /\ rpc = "loop"
    /\ rows_done < MaxRows
    /\ \E r \in Bookings :
         LET out == RowBody(revenue_stream, r, n_days, start_date)
         IN  /\ row' = r
             /\ before' = revenue_stream
             /\ revenue_stream' = out.rs
             /\ rpc' = IF out.ok THEN "loop" ELSE "raised"
    /\ rows_done' = rows_done + 1
    /\ UNCHANGED <<n_days, start_date, evars, cvars>>

\* data is exhausted: return revenue_stream
ReturnStream ==
    /\ rpc = "loop"
    /\ rpc' = "done"
    /\ UNCHANGED <<n_days, start_date, rows_done, row, before, revenue_stream>>
    /\ UNCHANGED <<evars, cvars>>

NextRevenue == IterRow \/ ReturnStream

SpecRevenue == InitRevenue /\ [][NextRevenue]_vars

----------------------------------------------------------------------------
(* run_evaluation *)

\* The series of the two frames: the period at position k (counted over train,
\* then valid) holds 10 * k, so that every period is told from every other.
PeriodValue(k) == 10 * k

SeriesFrom(first, len) == [k \in 1 .. len |-> PeriodValue(first + k - 1)]

\* what the model may forecast for a period: a value below every observation
\* and one above the early ones
ForecastValues == {5, 35}

\* the bound of a Python slice brought into 0 .. n: a negative bound counts
\* from the end, a bound past either end is clamped
SliceBound(k, n) ==
    IF k < 0 THEN (IF k + n < 0 THEN 0 ELSE k + n)
    ELSE IF k > n THEN n ELSE k

\* s[lo:hi]
PySlice(s, lo, hi) ==
    LET a == SliceBound(lo, Len(s))
        b == SliceBound(hi, Len(s))
    IN  IF a >= b THEN <<>> ELSE SubSeq(s, a + 1, b)

\* s[lo:]
PySliceFrom(s, lo) == PySlice(s, lo, Len(s))

\* pd.concat([train[-n_lag:], valid])
EvaluationFrame(tr, va, lag) == PySliceFrom(tr, -lag) \o va

\* a slip in the window: it starts one period late
WindowShifted(df, k, lag) == PySlice(df, k + 1, k + 1 + lag)

\* test_df[window_idx : window_idx + n_lag][series_column]
Window(df, k, lag) == PySlice(df, k, k + lag)

\* test_df[observation_idx : observation_idx + n_steps][series_column]
Observation(df, k, lag, steps) == PySlice(df, k + lag, k + lag + steps)

\* np.abs(a - b) of two numbers
AbsDiff(a, b) == IF a >= b THEN a - b ELSE b - a

\* np.abs(forecast.values - observation.values): arrays of equal length are
\* subtracted element by element, an array of length 1 is stretched to the
\* length of the other, any other pair of lengths is a ValueError
AbsoluteErrors(f, o) ==
    IF Len(f) = Len(o)
    THEN [ok |-> TRUE, ae |-> [k \in 1 .. Len(f) |-> AbsDiff(f[k], o[k])]]
    ELSE IF Len(o) = 1
    THEN [ok |-> TRUE, ae |-> [k \in 1 .. Len(f) |-> AbsDiff(f[k], o[1])]]
    ELSE IF Len(f) = 1
    THEN [ok |-> TRUE, ae |-> [k \in 1 .. Len(o) |-> AbsDiff(f[1], o[k])]]
    ELSE [ok |-> FALSE, ae |-> <<>>]

\* np.concatenate(arrays) of a list that is not empty
RECURSIVE Concatenate(_)
Concatenate(arrays) ==
    IF arrays = <<>> THEN <<>> ELSE Head(arrays) \o Concatenate(Tail(arrays))

\* a slip in the loop: the last window left out
TestRangeShort(n) == 0 .. (n - 2)

\* range(n_tests)
TestRange(n) == 0 .. (n - 1)

InitEval ==
    /\ RevenueIdle
    /\ ForecastIdle
    /\ \E lt \in 0 .. MaxTrain, lv \in 0 .. MaxValid :
          /\ train = SeriesFrom(1, lt)
          /\ valid = SeriesFrom(lt + 1, lv)
    /\ n_tests \in 0 .. MaxTests
    /\ n_lag \in 0 .. MaxLag
    /\ n_steps \in 1 .. MaxSteps
    /\ test_df = <<>>
    /\ i = 0
    /\ aes = <<>>
    /\ predictions = <<>>
    /\ calls = <<>>
    /\ epc = "start"

\* test_df = pd.concat([train[-n_lag:], valid]); aes = []; predictions = []
BuildFrame ==
    /\ epc = "start"
    /\ test_df' = EvaluationFrame(train, valid, n_lag)
    /\ aes' = <<>>
    /\ predictions' = <<>>
    /\ epc' = "loop"
    /\ UNCHANGED <<train, valid, n_tests, n_lag, n_steps, i, calls>>
    /\ UNCHANGED <<rvars, cvars>>

\* one turn of the loop in which model.predict answers with n_steps values
TestWindow ==
    /\ epc = "loop"
    /\ i \in TestRange(n_tests)
    /\ \E answer \in [1 .. n_steps -> ForecastValues] :
         LET window == Window(test_df, i, n_lag)
             observation == Observation(test_df, i, n_lag, n_steps)
             errors == AbsoluteErrors(answer, observation)
         IN  /\ calls' = Append(calls, [steps |-> n_steps, last_window |-> window,
                                        forecast |-> answer])
             /\ predictions' = Append(predictions, answer)
             /\ IF errors.ok
                THEN /\ aes' = Append(aes, errors.ae)
                     /\ i' = i + 1
                     /\ epc' = "loop"
                ELSE /\ aes' = aes
                     /\ i' = i
                     /\ epc' = "ValueError"
    /\ UNCHANGED <<train, valid, n_tests, n_lag, n_steps, test_df>>
    /\ UNCHANGED <<rvars, cvars>>

\* a slip in the loop: the failure of model.predict swallowed, the window
\* skipped and the loop carried on
TestWindowModelSkipped ==
    /\ epc = "loop"
    /\ i \in TestRange(n_tests)
    /\ calls' = Append(calls, [steps |-> n_steps,
                               last_window |-> Window(test_df, i, n_lag),
                               forecast |-> <<>>])
    /\ i' = i + 1
    /\ UNCHANGED <<train, valid, n_tests, n_lag, n_steps, test_df, aes, predictions, epc>>
    /\ UNCHANGED <<rvars, cvars>>

\* one turn of the loop in which model.predict raises: nothing catches it
TestWindowModelRaises ==
    /\ epc = "loop"
    /\ i \in TestRange(n_tests)
    /\ calls' = Append(calls, [steps |-> n_steps,
                               last_window |-> Window(test_df, i, n_lag),
                               forecast |-> <<>>])
    /\ epc' = "ModelError"
    /\ UNCHANGED <<train, valid, n_tests, n_lag, n_steps, test_df, i, aes, predictions>>
    /\ UNCHANGED <<rvars, cvars>>

\* aes = pd.Series(np.concatenate(aes)); return aes, predictions
\* (np.concatenate raises ValueError on an empty list)
ReturnEval ==
    /\ epc = "loop"
    /\ i \notin TestRange(n_tests)
    /\ IF aes = <<>>
       THEN /\ aes' = aes
            /\ epc' = "ValueError"
       ELSE /\ aes' = Concatenate(aes)
            /\ epc' = "done"
    /\ UNCHANGED <<train, valid, n_tests, n_lag, n_steps, test_df, i, predictions, calls>>
    /\ UNCHANGED <<rvars, cvars>>

NextEval == BuildFrame \/ TestWindow \/ TestWindowModelRaises \/ ReturnEval

SpecEval == InitEval /\ [][NextEval]_vars

----------------------------------------------------------------------------
(* main of the forecast command *)

\* click.IntRange(1, 12)
MinMonth == 1
MaxMonth == 12

\* click.IntRange(2023, 2025)
MinYear == 2023
MaxYear == 2025

\* click.Choice(["City Hotel", "Resort Hotel"])
Hotels == {"City Hotel", "Resort Hotel"}

\* amounts in thousandths of a dollar; none ends in 5, so that rounding to
\* cents never meets a tie
Amounts == {180000004, 200000996}

ForecastAmounts == {192170554, 245650896}

\* the keys main requires of params.yaml, in the order it looks for them
RequiredParams == <<"models_path", "exog_columns", "n_steps", "n_lags">>

\* the n_lags the command was written for
ExpectedLags == 2

None == "None"

\* the params.yaml files load_params may return: any subset of the keys,
\* any horizon, any number of lags
Configs ==
    { [k \in K |-> ("models_path" :> "models" @@ "exog_columns" :> "splines"
                    @@ "n_steps" :> ns @@ "n_lags" :> nl)[k]] :
         K \in SUBSET {RequiredParams[k] : k \in 1 .. Len(RequiredParams)},
         ns \in 1 .. MaxSteps, nl \in 0 .. MaxConfigLags }

\* a line of the log
Line(level, kind, arg, period, value) ==
    [level |-> level, kind |-> kind, arg |-> arg, period |-> period, value |-> value]

NoPeriod == [year |-> 0, month |-> 0]

Info(kind) == Line("info", kind, "", NoPeriod, 0)

Error(kind, arg) == Line("error", kind, arg, NoPeriod, 0)

\* the first of RequiredParams from position k on that params lacks, or None
RECURSIVE FirstMissing(_, _)
FirstMissing(p, k) ==
    IF k > Len(RequiredParams) THEN None
    ELSE IF RequiredParams[k] \notin DOMAIN p THEN RequiredParams[k]
    ELSE FirstMissing(p, k + 1)

\* if params["n_lags"] != 2: logging.error(...) -- and no return follows
LagsMismatchLogged(p) == p["n_lags"] # ExpectedLags

\* hotel.replace(' ', '') + ".pkl"
ModelFile(h) == IF h = "City Hotel" THEN "CityHotel.pkl" ELSE "ResortHotel.pkl"

TransformerFile == "spline_transformer.pkl"

\* months counted from year 0
MonthOrdinal(ts) == ts.year * 12 + (ts.month - 1)

FromOrdinal(o) == [year |-> o \div 12, month |-> (o % 12) + 1]

\* pd.Timestamp(f"{year}-{month:02d}-01 00:00:00")
StartTimestamp(y, m) == [year |-> y, month |-> m]

\* a slip in the offset: the window begun one month late, so that it runs
\* into the month the forecast starts with
MonthsBeforeOneLess(ts, k) == FromOrdinal(MonthOrdinal(ts) - (k - 1))

\* ts - DateOffset(months=k), of a first day of a month
MonthsBefore(ts, k) == FromOrdinal(MonthOrdinal(ts) - k)

\* pd.date_range(start=ts, periods=n, freq="M") of a first day of a month:
\* the ends of n months, the month of ts first
DateRange(ts, n) == [k \in 1 .. n |-> FromOrdinal(MonthOrdinal(ts) + k - 1)]

\* the index of the series the forecaster returns: the steps periods that
\* follow the last period of last_window
PredictIndex(lw, steps) ==
    [k \in 1 .. steps |-> FromOrdinal(MonthOrdinal(lw[Len(lw)].period) + k)]

\* f"{x:.2f}" of an amount in thousandths: the amount in cents
Format2(x) == (x + 5) \div 10

InitForecast ==
    /\ RevenueIdle
    /\ EvalIdle
    /\ month \in MinMonth .. MaxMonth
    /\ year \in MinYear .. MaxYear
    /\ revenue \in Amounts \X Amounts
    /\ hotel \in Hotels
    /\ params = None
    /\ model = None
    /\ transformer = None
    /\ last_window = <<>>
    /\ forecast_index = <<>>
    /\ forecast = <<>>
    /\ transform_calls = 0
    /\ predict_calls = 0
    /\ log = <<>>
    /\ cpc = "load_params"

\* logging.info("Requested ..."); params = load_params() raises
LoadParamsFails ==
    /\ cpc = "load_params"
    /\ log' = log \o <<Info("requested"), Error("cant_load_params", "")>>
    /\ cpc' = "returned"
    /\ UNCHANGED <<month, year, revenue, hotel, params, model, transformer, last_window,
                   forecast_index, forecast, transform_calls, predict_calls>>
    /\ UNCHANGED <<rvars, evars>>

\* logging.info("Requested ..."); params = load_params()
LoadParams ==
    /\ cpc = "load_params"
    /\ params' \in Configs
    /\ log' = Append(log, Info("requested"))
    /\ cpc' = "check_params"
    /\ UNCHANGED <<month, year, revenue, hotel, model, transformer, last_window,
                   forecast_index, forecast, transform_calls, predict_calls>>
    /\ UNCHANGED <<rvars, evars>>

\* the check of the parameters, lines 124-136
CheckParams ==
    /\ cpc = "check_params"
    /\ LET missing == FirstMissing(params, 1)
       IN  IF missing # None
           THEN /\ log' = Append(log, Error("missing", missing))
                /\ cpc' = "returned"
           ELSE IF LagsMismatchLogged(params)
           THEN /\ log' = log \o <<Error("n_lags", ""), Info("check_passed")>>
                /\ cpc' = "load_model"
           ELSE /\ log' = Append(log, Info("check_passed"))
                /\ cpc' = "load_model"
    /\ UNCHANGED <<month, year, revenue, hotel, params, model, transformer, last_window,
                   forecast_index, forecast, transform_calls, predict_calls>>
    /\ UNCHANGED <<rvars, evars>>

\* model = load_forecaster(model_path, verbose=False)
LoadModel ==
    /\ cpc = "load_model"
    /\ model' = ModelFile(hotel)
    /\ cpc' = "load_transformer"
    /\ UNCHANGED <<month, year, revenue, hotel, params, transformer, last_window,
                   forecast_index, forecast, transform_calls, predict_calls, log>>
    /\ UNCHANGED <<rvars, evars>>

\* load_forecaster raises: logging.error("Can't load model"); return
LoadModelFails ==
    /\ cpc = "load_model"
    /\ log' = Append(log, Error("cant_load_model", ""))
    /\ cpc' = "returned"
    /\ UNCHANGED <<month, year, revenue, hotel, params, model, transformer, last_window,
                   forecast_index, forecast, transform_calls, predict_calls>>
    /\ UNCHANGED <<rvars, evars>>

\* transformer = load_pickle(transformer_path); logging.info("... loaded")
LoadTransformer ==
    /\ cpc = "load_transformer"
    /\ transformer' = TransformerFile
    /\ log' = Append(log, Info("loaded"))
    /\ cpc' = "windows"
    /\ UNCHANGED <<month, year, revenue, hotel, params, model, last_window,
                   forecast_index, forecast, transform_calls, predict_calls>>
    /\ UNCHANGED <<rvars, evars>>

\* a slip in the handler: the error logged, the return forgotten
LoadTransformerFailsNoReturn ==
    /\ cpc = "load_transformer"
    /\ log' = Append(log, Error("cant_load_transformer", ""))
    /\ cpc' = "windows"
    /\ UNCHANGED <<month, year, revenue, hotel, params, model, transformer, last_window,
                   forecast_index, forecast, transform_calls, predict_calls>>
    /\ UNCHANGED <<rvars, evars>>

\* load_pickle raises: logging.error("Can't load transformer"); return
LoadTransformerFails ==
    /\ cpc = "load_transformer"
    /\ log' = Append(log, Error("cant_load_transformer", ""))
    /\ cpc' = "returned"
    /\ UNCHANGED <<month, year, revenue, hotel, params, model, transformer, last_window,
                   forecast_index, forecast, transform_calls, predict_calls>>
    /\ UNCHANGED <<rvars, evars>>

\* lines 168-187: the two indexes and the two frames. pd.DataFrame raises
\* ValueError when list(revenue) and last_window_index differ in length.
BuildWindows ==
    /\ cpc = "windows"
    /\ LET start_ts == StartTimestamp(year, month)
           prev_ts == MonthsBefore(start_ts, params["n_lags"])
           last_window_index == DateRange(prev_ts, params["n_lags"])
       IN  /\ forecast_index' = DateRange(start_ts, params["n_steps"])
           /\ IF Len(revenue) = Len(last_window_index)
              THEN /\ last_window' = [k \in 1 .. Len(last_window_index) |->
                                        [period |-> last_window_index[k],
                                         value |-> revenue[k],
                                         month_of_the_year |-> last_window_index[k].month]]
                   /\ cpc' = "transform"
              ELSE /\ last_window' = last_window
                   /\ cpc' = "raised"
    /\ UNCHANGED <<month, year, revenue, hotel, params, model, transformer,
                   forecast, transform_calls, predict_calls, log>>
    /\ UNCHANGED <<rvars, evars>>

\* exogs = pd.DataFrame(transformer.transform(...), ...)
Transform ==
    /\ cpc = "transform"
    /\ transform_calls' = transform_calls + 1
    /\ cpc' = "predict"
    /\ UNCHANGED <<month, year, revenue, hotel, params, model, transformer, last_window,
                   forecast_index, forecast, predict_calls, log>>
    /\ UNCHANGED <<rvars, evars>>

\* transformer.transform, or the frame built of its result, raises
TransformRaises ==
    /\ cpc = "transform"
    /\ transform_calls' = transform_calls + 1
    /\ cpc' = "raised"
    /\ UNCHANGED <<month, year, revenue, hotel, params, model, transformer, last_window,
                   forecast_index, forecast, predict_calls, log>>
    /\ UNCHANGED <<rvars, evars>>

\* forecast = model.predict(steps=n_steps, last_window=last_window[hotel], exog=exogs)
Predict ==
    /\ cpc = "predict"
    /\ predict_calls' = predict_calls + 1
    /\ \E answer \in [1 .. params["n_steps"] -> ForecastAmounts] :
          LET index == PredictIndex(last_window, params["n_steps"])
          IN  forecast' = [k \in 1 .. params["n_steps"] |->
                             [period |-> index[k], value |-> answer[k]]]
    /\ cpc' = "report"
    /\ UNCHANGED <<month, year, revenue, hotel, params, model, transformer, last_window,
                   forecast_index, transform_calls, log>>
    /\ UNCHANGED <<rvars, evars>>

\* model.predict raises
PredictRaises ==
    /\ cpc = "predict"
    /\ predict_calls' = predict_calls + 1
    /\ cpc' = "raised"
    /\ UNCHANGED <<month, year, revenue, hotel, params, model, transformer, last_window,
                   forecast_index, forecast, transform_calls, log>>
    /\ UNCHANGED <<rvars, evars>>

\* lines 203-207: the header, the Actual lines, the Forecast lines
Report ==
    /\ cpc = "report"
    /\ log' = log
              \o <<Info("header")>>
              \o [k \in 1 .. Len(last_window) |->
                    Line("info", "Actual", "", last_window[k].period,
                         Format2(last_window[k].value))]
              \o [k \in 1 .. Len(forecast) |->
                    Line("info", "Forecast", "", forecast[k].period,
                         Format2(forecast[k].value))]
    /\ cpc' = "returned"
    /\ UNCHANGED <<month, year, revenue, hotel, params, model, transformer, last_window,
                   forecast_index, forecast, transform_calls, predict_calls>>
    /\ UNCHANGED <<rvars, evars>>

NextForecast ==
    \/ LoadParamsFails \/ LoadParams \/ CheckParams
    \/ LoadModel \/ LoadModelFails \/ LoadTransformer \/ LoadTransformerFails
    \/ BuildWindows \/ Transform \/ TransformRaises
    \/ Predict \/ PredictRaises \/ Report

SpecForecast == InitForecast /\ [][NextForecast]_vars

----------------------------------------------------------------------------
(* Properties of the forecast command *)

\* an error line of this kind is in the log
ErrorLogged(kind) ==
    \E k \in 1 .. Len(log) : log[k].level = "error" /\ log[k].kind = kind

\* no Actual and no Forecast line is in the log
NoReportLine ==
    \A k \in 1 .. Len(log) : log[k].kind \notin {"Actual", "Forecast"}

\* load_params has returned the configuration
ParamsLoaded == cpc # "load_params" /\ ~ErrorLogged("cant_load_params")

\* the configuration holds all four keys, and an n_lags other than 2
LagsMismatch ==
    /\ ParamsLoaded
    /\ FirstMissing(params, 1) = None
    /\ params["n_lags"] # 2

\* the configuration lacks one of the four keys
KeyMissing == ParamsLoaded /\ FirstMissing(params, 1) # None

\* C1: with all four keys and n_lags # 2 the run is aborted at the check: no
\* artifact is loaded, predict is never invoked, no Actual or Forecast line
\* is emitted, and the run does not end in an exception.
C1_LagsMismatchAborts ==
    LagsMismatch =>
        /\ model = None
        /\ transformer = None
        /\ predict_calls = 0
        /\ NoReportLine
        /\ cpc # "raised"

\* C2: when the configuration cannot be loaded, a key is missing, or the
\* model or the transformer fails to load, the run returns early without
\* raising: transform and predict are never called, and no Actual or
\* Forecast line is emitted.
C2_EarlyReturn ==
    /\ KeyMissing => cpc \in {"check_params", "returned"}
    /\ (\/ ErrorLogged("cant_load_params")
        \/ ErrorLogged("missing")
        \/ ErrorLogged("cant_load_model")
        \/ ErrorLogged("cant_load_transformer")) => cpc = "returned"
    /\ (\/ KeyMissing
        \/ ErrorLogged("cant_load_params")
        \/ ErrorLogged("cant_load_model")
        \/ ErrorLogged("cant_load_transformer")) =>
           /\ transform_calls = 0
           /\ predict_calls = 0
           /\ NoReportLine
           /\ cpc # "raised"

C2_Witness ==
    /\ cpc = "returned"
    /\ ErrorLogged("cant_load_transformer")
    /\ model = ModelFile(hotel)
    /\ transformer = None
    /\ params["n_lags"] = 2
    /\ Len(log) = 3

----------------------------------------------------------------------------
(* Properties of calculate_daily_revenue_stream *)

\* the loop body has run on `row`
RowActed == rows_done >= 1

\* the call on a table of exactly one booking is over (returned or raised)
SingleBookingCall == rows_done = 1 /\ rpc # "loop"

ArrivalOffset(r) == r.arrival_date - start_date

StatusOffset(r) == r.reservation_status_date - start_date

IsStay(r) == r.is_canceled = 0

IsCancelledNonRefund(r) == r.is_canceled = 1 /\ r.deposit_type = NonRefund

RECURSIVE SumUpTo(_, _)
SumUpTo(f, n) == IF n = 0 THEN 0 ELSE f[n - 1] + SumUpTo(f, n - 1)

\* the sum of all n_days entries of the array
Total(f) == SumUpTo(f, n_days)

\* a booking that lies entirely outside [start_date, start_date + n_days)
EntirelyOutside(r) ==
    \/ /\ IsStay(r)
       /\ \/ ArrivalOffset(r) + r.total_nights <= 0
          \/ ArrivalOffset(r) >= n_days
    \/ /\ IsCancelledNonRefund(r)
       /\ \/ StatusOffset(r) < 0
          \/ StatusOffset(r) >= n_days

\* what a booking brings to calendar day start_date + d
Attributed(r, d) ==
    IF IsStay(r)
    THEN IF ArrivalOffset(r) <= d /\ d < ArrivalOffset(r) + r.total_nights
         THEN r.adr ELSE 0
    ELSE IF IsCancelledNonRefund(r)
    THEN IF StatusOffset(r) = d THEN r.adr * r.total_nights ELSE 0
    ELSE 0

\* C3: a booking entirely outside [start_date, start_date + n_days) leaves
\* every entry of the output unchanged (stated for the calls that get past
\* the booking; the calls that raise on it are C4's).
C3_OutsideBookingNoEffect ==
    (RowActed /\ EntirelyOutside(row) /\ rpc # "raised") =>
        revenue_stream = before

\* C4: the call never raises because of a booking whose dates are out of
\* range, and what it returns has length n_days.
C4_NeverRaises ==
    /\ rpc # "raised"
    /\ rpc = "done" => DOMAIN revenue_stream = 0 .. (n_days - 1)

\* C5: every index d receives from a booking exactly what the booking
\* attributes to calendar day start_date + d, added to what was there; a stay
\* that begins before start_date and reaches into the range counts only with
\* its nights in range, each at the index of its own day (stated for the
\* bookings that are not entirely outside the range, which are C3's).
C5_OwnDayOnly ==
    (RowActed /\ rpc # "raised" /\ ~EntirelyOutside(row)) =>
        \A d \in 0 .. (n_days - 1) :
           revenue_stream[d] = before[d] + Attributed(row, d)

\* C6: a single non-cancelled booking of rate R and length L fully inside the
\* range gives R at indices a .. a+L-1, 0 elsewhere, and a total of R x L.
C6_StayInsideRange ==
    (/\ SingleBookingCall
     /\ IsStay(row)
     /\ ArrivalOffset(row) >= 0
     /\ ArrivalOffset(row) + row.total_nights <= n_days) =>
        /\ rpc = "done"
        /\ \A d \in 0 .. (n_days - 1) :
              revenue_stream[d] =
                 IF ArrivalOffset(row) <= d /\ d < ArrivalOffset(row) + row.total_nights
                 THEN row.adr ELSE 0
        /\ Total(revenue_stream) = row.adr * row.total_nights

C6_Witness ==
    /\ rows_done = 1
    /\ rpc = "done"
    /\ IsStay(row)
    /\ ArrivalOffset(row) = 0
    /\ row.total_nights = n_days
    /\ n_days >= 2
    /\ Total(revenue_stream) = row.adr * row.total_nights

\* C7: truncation law. A single non-cancelled booking of rate R > 0 that
\* arrives at offset a in [0, n_days) and stays past the end gives R at
\* exactly the indices a .. n_days-1 (the last index included), and the total
\* R x (n_days - a) is less than R x L.
C7_Truncation ==
    (/\ SingleBookingCall
     /\ IsStay(row)
     /\ row.adr > 0
     /\ ArrivalOffset(row) >= 0
     /\ ArrivalOffset(row) < n_days
     /\ ArrivalOffset(row) + row.total_nights > n_days) =>
        /\ rpc = "done"
        /\ \A d \in 0 .. (n_days - 1) :
              revenue_stream[d] = IF ArrivalOffset(row) <= d THEN row.adr ELSE 0
        /\ Total(revenue_stream) = row.adr * (n_days - ArrivalOffset(row))
        /\ Total(revenue_stream) < row.adr * row.total_nights

C7_Witness ==
    /\ rows_done = 1
    /\ rpc = "done"
    /\ IsStay(row)
    /\ ArrivalOffset(row) = n_days - 1
    /\ row.total_nights = MaxNights
    /\ revenue_stream[n_days - 1] = row.adr
    /\ Total(revenue_stream) < row.adr * row.total_nights

\* C8: a cancelled non-refundable booking whose status date is at offset k in
\* [0, n_days) adds R x L at index k and nothing anywhere else; with k outside
\* the range on either side, or with any other deposit type, a cancelled
\* booking adds nothing at any index.
C8_CancelledBooking ==
    (RowActed /\ row.is_canceled = 1) =>
        /\ rpc # "raised"
        /\ \A d \in 0 .. (n_days - 1) :
              revenue_stream[d] =
                 IF /\ row.deposit_type = NonRefund
                    /\ StatusOffset(row) = d
                 THEN before[d] + row.adr * row.total_nights
                 ELSE before[d]

C8_Witness ==
    /\ rows_done = 1
    /\ rpc = "done"
    /\ IsCancelledNonRefund(row)
    /\ StatusOffset(row) = n_days - 1
    /\ row.total_nights >= 2
    /\ ArrivalOffset(row) = n_days
    /\ revenue_stream[n_days - 1] = row.adr * row.total_nights

----------------------------------------------------------------------------
(* Properties of run_evaluation *)

\* the caller's side of the contract: enough periods in train and in valid
EnoughData ==
    /\ n_tests >= 1
    /\ n_lag >= 1
    /\ n_steps >= 1
    /\ Len(train) >= n_lag
    /\ Len(valid) >= n_tests + n_steps - 1

\* run_evaluation is over: it returned, or an exception left it
EvalOver == epc \in {"done", "ModelError", "ValueError"}

\* every call of the model was answered with a forecast
ModelAnswered == epc # "ModelError"

\* the last n_lag periods of train followed by all of valid, as the spec
\* words it
LastPeriodsThenValid ==
    SubSeq(train, Len(train) - n_lag + 1, Len(train)) \o valid

\* C9: with enough data and a model that answers every call with n_steps
\* values, run_evaluation returns; absolute_errors has length n_tests x
\* n_steps, forecasts has length n_tests, every forecast has length n_steps,
\* and predict was called exactly n_tests times.
C9_ResultLengths ==
    (EvalOver /\ EnoughData /\ ModelAnswered) =>
        /\ epc = "done"
        /\ Len(aes) = n_tests * n_steps
        /\ Len(predictions) = n_tests
        /\ \A k \in 1 .. Len(predictions) : Len(predictions[k]) = n_steps
        /\ Len(calls) = n_tests

C9_Witness ==
    /\ epc = "done"
    /\ EnoughData
    /\ n_tests = MaxTests
    /\ n_steps = MaxSteps
    /\ Len(valid) = n_tests + n_steps - 1
    /\ Len(aes) = n_tests * n_steps

\* C10: with enough data, the frame is the last n_lag periods of train
\* followed by valid; the model is called for i = 0 .. n_tests-1 in this
\* order with the window F[i .. i+n_lag-1]; forecasts[i] is its answer and
\* absolute_errors[i * n_steps + j] = |forecast_i[j] - F[i + n_lag + j]|.
C10_WindowsAndErrors ==
    (epc = "done" /\ EnoughData) =>
        LET F == LastPeriodsThenValid
        IN  /\ test_df = F
            /\ Len(calls) = n_tests
            /\ Len(predictions) = n_tests
            /\ Len(aes) = n_tests * n_steps
            /\ \A w \in 0 .. (n_tests - 1) :
                  /\ calls[w + 1].last_window = [k \in 1 .. n_lag |-> F[w + k]]
                  /\ calls[w + 1].steps = n_steps
                  /\ predictions[w + 1] = calls[w + 1].forecast
                  /\ \A j \in 0 .. (n_steps - 1) :
                        LET f == calls[w + 1].forecast[j + 1]
                            o == F[w + n_lag + j + 1]
                        IN  aes[w * n_steps + j + 1] = IF f >= o THEN f - o ELSE o - f

C10_Witness ==
    /\ epc = "done"
    /\ EnoughData
    /\ n_tests = 2
    /\ n_lag = 2
    /\ n_steps = 2
    /\ Len(train) > n_lag - 1
    /\ calls[2].last_window = <<PeriodValue(Len(train)), PeriodValue(Len(train) + 1)>>
    /\ calls[1].forecast = <<35, 5>>
    /\ calls[2].forecast = <<5, 35>>
    /\ aes[4] = PeriodValue(Len(train) + 3) - 35

\* the model failed at call k
CallFailed(k) == Len(calls[k].forecast) = 0

\* C11: fail-fast. When predict fails at window i the evaluation stops
\* there with the failure: the failed call is the last call, the windows
\* 0 .. i were each tried once and in order, nothing is returned; and a run
\* that returns has had every one of its n_tests windows answered.
C11_FailFast ==
    /\ \A k \in 1 .. Len(calls) :
          CallFailed(k) => (k = Len(calls) /\ epc = "ModelError")
    /\ epc = "ModelError" =>
          /\ Len(calls) = i + 1
          /\ CallFailed(i + 1)
          /\ Len(predictions) = i
          /\ Len(aes) = i
          /\ \A k \in 1 .. Len(calls) :
                calls[k].last_window = PySlice(test_df, k - 1, k - 1 + n_lag)
    /\ epc = "done" =>
          /\ Len(calls) = n_tests
          /\ \A k \in 1 .. Len(calls) : ~CallFailed(k)

C11_Witness ==
    /\ epc = "ModelError"
    /\ n_tests = MaxTests
    /\ i = 1
    /\ Len(calls) = 2
    /\ ~CallFailed(1)
    /\ CallFailed(2)
    /\ Len(predictions) = 1

----------------------------------------------------------------------------
(* Properties of the report of the forecast command *)

\* the Actual and Forecast lines of the log, in order
ReportLines == SelectSeq(log, LAMBDA l : l.kind \in {"Actual", "Forecast"})

\* the run came to its report
Reported == cpc = "returned" /\ \E k \in 1 .. Len(log) : log[k].kind = "header"

\* calendar months counted on one line
MonthNumber(p) == p.year * 12 + p.month

\* cents is the amount x, given in thousandths, rounded to two decimals
IsRounded(cents, x) == 10 * cents - 5 < x /\ x < 10 * cents + 5

\* C12: a successful run has n_lags = 2 and reports, after the header and
\* as the last lines of the log, two Actual lines for the two months before
\* the start month, carrying the two revenues in the given order, then
\* n_steps Forecast lines for the months from the start month on, carrying
\* the forecast; the periods are consecutive calendar months, also across
\* the turn of a year (start 2023-02: 2022-12, 2023-01, then 2023-02).
C12_Report ==
    Reported =>
        LET rep == ReportLines
            steps == params["n_steps"]
            start == year * 12 + month
        IN  /\ params["n_lags"] = 2
            /\ Len(rep) = 2 + steps
            /\ log[Len(log) - Len(rep)].kind = "header"
            /\ SubSeq(log, Len(log) - Len(rep) + 1, Len(log)) = rep
            /\ \A k \in 1 .. 2 :
                  /\ rep[k].kind = "Actual"
                  /\ MonthNumber(rep[k].period) = start - 3 + k
                  /\ IsRounded(rep[k].value, revenue[k])
            /\ \A k \in 1 .. steps :
                  /\ rep[2 + k].kind = "Forecast"
                  /\ MonthNumber(rep[2 + k].period) = start + k - 1
                  /\ IsRounded(rep[2 + k].value, forecast[k].value)
            /\ \A k \in 1 .. Len(rep) :
                  rep[k].period.month \in 1 .. 12
            /\ \A k \in 1 .. (Len(rep) - 1) :
                  MonthNumber(rep[k + 1].period) = MonthNumber(rep[k].period) + 1
            /\ (month = 2 /\ year = 2023) =>
                  /\ rep[1].period = [year |-> 2022, month |-> 12]
                  /\ rep[2].period = [year |-> 2023, month |-> 1]
                  /\ rep[3].period = [year |-> 2023, month |-> 2]
            /\ month = 1 =>
                  /\ rep[1].period = [year |-> year - 1, month |-> 11]
                  /\ rep[2].period = [year |-> year - 1, month |-> 12]
                  /\ rep[3].period = [year |-> year, month |-> 1]

C12_Witness ==
    /\ Reported
    /\ month = 1
    /\ year = 2023
    /\ params["n_steps"] = MaxSteps
    /\ revenue[1] > revenue[2]
    /\ Len(ReportLines) = 2 + MaxSteps
    /\ ReportLines[1].period = [year |-> 2022, month |-> 11]
    /\ ReportLines[1].value * 10 > revenue[2]

====
